---- MODULE Spec2Model ----
(***************************************************************************)
(* The SocialMediaForm component: a react-hook-form draft validated by a   *)
(* zod schema, a list of uploaded image files, and the submission of the   *)
(* validated draft to a webhook.  One step of the model is one task of the *)
(* browser's event loop: a user event with the handler it runs, or the     *)
(* continuation of a handler after an awaited fetch has settled.           *)
(***************************************************************************)
EXTENDS Integers, Sequences, FiniteSets, TLC

VARIABLES
    form,            \* react-hook-form field values
    errors,          \* formState.errors: the names of the fields that carry an error
    isSubmitted,     \* formState.isSubmitted: a submit was attempted since the last reset
    uploadedImages,  \* useState<File[]>
    isSubmitting,    \* useState(false)
    requests,        \* the fetch calls of onSubmit that have not settled yet
    toasts,          \* the toasts emitted by the last step
    event,           \* the last step: the event handled or the continuation run
    showAIModal,     \* useState(false), AI variant
    aiPrompt,        \* useState(''), AI variant
    isGenerating,    \* useState(false), AI variant
    generations      \* the fetch calls of handleAIGenerate that have not settled yet

aiVars == <<showAIModal, aiPrompt, isGenerating, generations>>

vars == <<form, errors, isSubmitted, uploadedImages, isSubmitting, requests, toasts, event,
          showAIModal, aiPrompt, isGenerating, generations>>

----------------------------------------------------------------------------
(* Bounds of the model *)

\* longest candidate batch of one file selection
MaxBatch == 3

----------------------------------------------------------------------------
(* Values *)

RECURSIVE Rep(_)
\* a text of n characters
Rep(n) ==
    IF n = 0 THEN ""
    ELSE IF n % 2 = 0 THEN LET h == Rep(n \div 2) IN h \o h
    ELSE "a" \o Rep(n - 1)

\* a field of the form that holds no value
Undefined == "undefined"

TitleMax == 100
CaptionMax == 2200
MaxImages == 4
MaxFileSize == 10 * 1024 * 1024

platforms == <<"facebook", "instagram", "linkedin">>

defaultValues ==
    [postTitle |-> "", caption |-> "", hashtags |-> "", platforms |-> <<>>,
     scheduledDate |-> Undefined, webhookUrl |-> ""]

FieldNames == {"postTitle", "caption", "hashtags", "platforms", "scheduledDate", "webhookUrl"}

\* the days the calendar offers
Dates == {"Tue Dec 01 2026"}

\* Date.prototype.toISOString on the days of the calendar
toISOString(d) ==
    CASE d = "Tue Dec 01 2026" -> "2026-12-01T00:00:00.000Z"
      [] d = "Wed Dec 02 2026" -> "2026-12-02T00:00:00.000Z"
      [] OTHER -> "RangeError"

\* the texts that parse as an absolute URL
AbsoluteUrls == {"https://example.com/hook", "http://localhost:5678/webhook"}

File(name, type, size) == [name |-> name, type |-> type, size |-> size]

jpegOk   == File("a.jpg", "image/jpeg", 1024 * 1024)
pngExact == File("b.png", "image/png", 10485760)
pngOver  == File("c.png", "image/png", 10485761)
gifSmall == File("d.gif", "image/gif", 2048)

\* every sequence over S of length at most n
SeqsUpTo(S, n) == UNION {[1..k -> S] : k \in 0..n}

----------------------------------------------------------------------------
(* Pure helpers *)

\* Array.prototype.includes
Includes(s, x) == \E i \in 1..Len(s) : s[i] = x

\* the filter's predicate with < for <=
validFileStrict(file) ==
    (file.type = "image/jpeg" \/ file.type = "image/png") /\ file.size < MaxFileSize

\* the predicate of handleImageUpload's filter
validFile(file) ==
    (file.type = "image/jpeg" \/ file.type = "image/png") /\ file.size <= MaxFileSize

RECURSIVE filterValid(_)
\* files.filter(file => validFile(file))
filterValid(files) ==
    IF files = <<>> THEN <<>>
    ELSE IF validFile(Head(files)) THEN <<Head(files)>> \o filterValid(Tail(files))
    ELSE filterValid(Tail(files))

RECURSIVE filterIndex(_, _, _)
\* prev.filter((_, i) => i !== index), i being the 0-based position of the head of prev
filterIndex(prev, i, index) ==
    IF prev = <<>> THEN <<>>
    ELSE IF i # index THEN <<Head(prev)>> \o filterIndex(Tail(prev), i + 1, index)
    ELSE filterIndex(Tail(prev), i + 1, index)

RECURSIVE filterValue(_, _)
\* field.value.filter(value => value !== id)
filterValue(value, id) ==
    IF value = <<>> THEN <<>>
    ELSE IF Head(value) # id THEN <<Head(value)>> \o filterValue(Tail(value), id)
    ELSE filterValue(Tail(value), id)

\* the rules of formSchema with the two maxima excluded
formSchemaExclusive(data, field) ==
    CASE field = "postTitle" -> Len(data.postTitle) >= 1 /\ Len(data.postTitle) < TitleMax
      [] field = "caption" -> Len(data.caption) >= 1 /\ Len(data.caption) < CaptionMax
      [] field = "hashtags" -> TRUE
      [] field = "platforms" -> Len(data.platforms) >= 1
      [] field = "scheduledDate" -> data.scheduledDate # Undefined
      [] field = "webhookUrl" -> data.webhookUrl \in AbsoluteUrls

\* the per-field rules of formSchema; TRUE when the field passes
formSchema(data, field) ==
    CASE field = "postTitle" -> Len(data.postTitle) >= 1 /\ Len(data.postTitle) <= TitleMax
      [] field = "caption" -> Len(data.caption) >= 1 /\ Len(data.caption) <= CaptionMax
      [] field = "hashtags" -> TRUE
      [] field = "platforms" -> Len(data.platforms) >= 1
      [] field = "scheduledDate" -> data.scheduledDate # Undefined
      [] field = "webhookUrl" -> data.webhookUrl \in AbsoluteUrls

\* a resolver that stops at the first issue
resolverFirstIssue(data) ==
    LET issues == {f \in FieldNames : ~formSchema(data, f)} IN
    IF issues = {} THEN {} ELSE {CHOOSE f \in issues : TRUE}

\* zodResolver(formSchema): the fields with an issue
resolver(data) == {f \in FieldNames : ~formSchema(data, f)}

RECURSIVE joinQuoted(_)
\* the elements of a string array, quoted and separated by commas
joinQuoted(a) ==
    IF a = <<>> THEN ""
    ELSE IF Len(a) = 1 THEN "\"" \o a[1] \o "\""
    ELSE "\"" \o a[1] \o "\"," \o joinQuoted(Tail(a))

\* JSON.stringify of a string array
stringify(a) == "[" \o joinQuoted(a) \o "]"

\* data.hashtags || ''
orEmpty(v) == IF v = Undefined \/ v = "" THEN "" ELSE v

\* the entries uploadedImages.forEach appends: image_<index> for the 0-based index
\* the image entries keyed from one
imageEntriesOneBased(images) ==
    [i \in 1..Len(images) |-> [name |-> "image_" \o ToString(i), value |-> images[i]]]

imageEntries(images) ==
    [i \in 1..Len(images) |-> [name |-> "image_" \o ToString(i - 1), value |-> images[i]]]

\* the FormData onSubmit builds, as the ordered list of its entries
buildFormData(data, images) ==
    << [name |-> "postTitle", value |-> data.postTitle],
       [name |-> "caption", value |-> data.caption],
       [name |-> "hashtags", value |-> orEmpty(data.hashtags)],
       [name |-> "platforms", value |-> stringify(data.platforms)],
       [name |-> "scheduledDate", value |-> toISOString(data.scheduledDate)] >>
    \o imageEntries(images)

\* a response that is ok on status 200 only
responseOk200(outcome) == "status" \in DOMAIN outcome /\ outcome.status = 200

\* Response.ok
responseOk(outcome) ==
    /\ "status" \in DOMAIN outcome
    /\ outcome.status >= 200
    /\ outcome.status <= 299

\* how a fetch settles: a response with a status, or a rejection
Outcomes ==
    {[status |-> 200], [status |-> 299], [status |-> 300], [status |-> 500],
     [rejected |-> "TypeError"]}

\* Array.prototype.splice(i, 1) on a 1-based position
RemoveAt(s, i) == SubSeq(s, 1, i - 1) \o SubSeq(s, i + 1, Len(s))

----------------------------------------------------------------------------
(* Toasts *)

TooManyImages == "Too many images"
SubmitSuccess == "Content submitted successfully!"
SubmitFailed  == "Submission failed"
EnterPrompt   == "Please enter a prompt"
GenerateSuccess == "Content generated successfully!"
GenerateFailed  == "Generation failed"

----------------------------------------------------------------------------
(* Initial state: the component as mounted *)

Init ==
    /\ form = defaultValues
    /\ errors = {}
    /\ isSubmitted = FALSE
    /\ uploadedImages = <<>>
    /\ isSubmitting = FALSE
    /\ requests = <<>>
    /\ toasts = <<>>
    /\ event = [op |-> "mount"]
    /\ showAIModal = FALSE
    /\ aiPrompt = ""
    /\ isGenerating = FALSE
    /\ generations = <<>>

----------------------------------------------------------------------------
(* Image attachments *)

\* the count check with the existing images left out
tooManyBatchOnly(files, validFiles) == Len(validFiles) > MaxImages

\* the count check with >= for >
tooManyGeq(files, validFiles) == Len(validFiles) + Len(uploadedImages) >= MaxImages

\* the count check on the selection as it came, before the filter
tooManyRaw(files, validFiles) == Len(files) + Len(uploadedImages) > MaxImages

\* validFiles.length + uploadedImages.length > 4
tooMany(files, validFiles) == Len(validFiles) + Len(uploadedImages) > MaxImages

\* a handleImageUpload that puts the new files before the existing ones
handleImageUploadPrepends(files) ==
    LET validFiles == filterValid(files) IN
    /\ IF tooMany(files, validFiles)
       THEN /\ toasts' = <<TooManyImages>>
            /\ UNCHANGED uploadedImages
       ELSE /\ uploadedImages' = validFiles \o uploadedImages
            /\ toasts' = <<>>
    /\ event' = [op |-> "handleImageUpload", files |-> files]
    /\ UNCHANGED <<form, errors, isSubmitted, isSubmitting, requests, aiVars>>

\* a handleImageUpload that ignores the files while a submission is in flight
handleImageUploadIdleOnly(files) ==
    LET validFiles == filterValid(files) IN
    /\ IF isSubmitting
       THEN /\ toasts' = <<>>
            /\ UNCHANGED uploadedImages
       ELSE IF tooMany(files, validFiles)
       THEN /\ toasts' = <<TooManyImages>>
            /\ UNCHANGED uploadedImages
       ELSE /\ uploadedImages' = uploadedImages \o validFiles
            /\ toasts' = <<>>
    /\ event' = [op |-> "handleImageUpload", files |-> files]
    /\ UNCHANGED <<form, errors, isSubmitted, isSubmitting, requests, aiVars>>

\* <input type="file" onChange={handleImageUpload}>, files being e.target.files
handleImageUpload(files) ==
    LET validFiles == filterValid(files) IN
    /\ IF tooMany(files, validFiles)
       THEN /\ toasts' = <<TooManyImages>>
            /\ UNCHANGED uploadedImages
       ELSE /\ uploadedImages' = uploadedImages \o validFiles
            /\ toasts' = <<>>
    /\ event' = [op |-> "handleImageUpload", files |-> files]
    /\ UNCHANGED <<form, errors, isSubmitted, isSubmitting, requests, aiVars>>

\* removeImage counting positions from 1
removeImageOneBased(index) ==
    /\ uploadedImages' = filterIndex(uploadedImages, 1, index)
    /\ toasts' = <<>>
    /\ event' = [op |-> "removeImage", index |-> index]
    /\ UNCHANGED <<form, errors, isSubmitted, isSubmitting, requests, aiVars>>

\* the X button of a preview: onClick={() => removeImage(index)}
removeImage(index) ==
    /\ uploadedImages' = filterIndex(uploadedImages, 0, index)
    /\ toasts' = <<>>
    /\ event' = [op |-> "removeImage", index |-> index]
    /\ UNCHANGED <<form, errors, isSubmitted, isSubmitting, requests, aiVars>>

----------------------------------------------------------------------------
(* The form *)

\* an onChange whose value reaches the data of the requests in flight
onChangeAliased(field, value) ==
    /\ value # form[field]
    /\ form' = [form EXCEPT ![field] = value]
    /\ errors' = IF isSubmitted
                 THEN (errors \ {field}) \cup (resolver(form') \cap {field})
                 ELSE errors
    /\ requests' = [i \in 1..Len(requests) |-> [requests[i] EXCEPT !.data = form']]
    /\ toasts' = <<>>
    /\ event' = [op |-> "onChange", field |-> field]
    /\ UNCHANGED <<isSubmitted, uploadedImages, isSubmitting, aiVars>>

\* field.onChange(value) of a registered field: the value is stored and, once a
\* submit has been attempted, the field is validated again
onChange(field, value) ==
    /\ value # form[field]
    /\ form' = [form EXCEPT ![field] = value]
    /\ errors' = IF isSubmitted
                 THEN (errors \ {field}) \cup (resolver(form') \cap {field})
                 ELSE errors
    /\ toasts' = <<>>
    /\ event' = [op |-> "onChange", field |-> field]
    /\ UNCHANGED <<isSubmitted, uploadedImages, isSubmitting, requests, aiVars>>

\* a Checkbox that appends the id whether it is selected or not
onCheckedChangeAppends(id) == onChange("platforms", form.platforms \o <<id>>)

\* the Checkbox of a platform: checked is the negation of isSelected
onCheckedChange(id) ==
    LET isSelected == Includes(form.platforms, id)
        checked == ~isSelected
    IN  IF checked
        THEN onChange("platforms", form.platforms \o <<id>>)
        ELSE onChange("platforms", filterValue(form.platforms, id))

----------------------------------------------------------------------------
(* Submission *)

\* a submit Button that is never disabled
submitDisabledNever == FALSE

\* the submit Button: disabled={isSubmitting}
submitDisabled == isSubmitting

\* onSubmit up to its await: the busy flag, the FormData and the fetch call.  A
\* pending call keeps what was sent (url, method, body) and what the suspended
\* closure holds (data, uploadedImages)
onSubmit(data) ==
    /\ isSubmitting' = TRUE
    /\ requests' = Append(requests,
                          [url |-> data.webhookUrl,
                           method |-> "POST",
                           body |-> buildFormData(data, uploadedImages),
                           data |-> data,
                           uploadedImages |-> uploadedImages])
    /\ toasts' = <<>>
    /\ UNCHANGED <<form, uploadedImages>>

\* a handleSubmit that raises the busy flag before it validates
handleSubmitBusyFirst ==
    LET issues == resolver(form) IN
    /\ isSubmitted' = TRUE
    /\ errors' = issues
    /\ IF issues = {}
       THEN onSubmit(form)
       ELSE /\ isSubmitting' = TRUE
            /\ toasts' = <<>>
            /\ UNCHANGED <<form, uploadedImages, requests>>

\* form.handleSubmit(onSubmit): validate, then onSubmit or the field errors
handleSubmit ==
    LET issues == resolver(form) IN
    /\ isSubmitted' = TRUE
    /\ errors' = issues
    /\ IF issues = {}
       THEN onSubmit(form)
       ELSE /\ toasts' = <<>>
            /\ UNCHANGED <<form, uploadedImages, isSubmitting, requests>>

\* the user activates the submit button; a disabled button submits nothing
submit ==
    /\ IF submitDisabled
       THEN /\ toasts' = <<>>
            /\ UNCHANGED <<form, errors, isSubmitted, uploadedImages, isSubmitting, requests>>
       ELSE handleSubmit
    /\ event' = [op |-> "submit", disabled |-> submitDisabled, valid |-> resolver(form) = {}]
    /\ UNCHANGED aiVars

\* the try block with the reset moved out of the response.ok branch
afterResponseResetAlways(outcome) ==
    /\ toasts' = IF responseOk(outcome) THEN <<SubmitSuccess>> ELSE <<SubmitFailed>>
    /\ form' = defaultValues
    /\ errors' = {}
    /\ isSubmitted' = FALSE
    /\ uploadedImages' = <<>>

\* the try block without setUploadedImages([])
afterResponseKeepImages(outcome) ==
    IF responseOk(outcome)
    THEN /\ toasts' = <<SubmitSuccess>>
         /\ form' = defaultValues
         /\ errors' = {}
         /\ isSubmitted' = FALSE
         /\ UNCHANGED uploadedImages
    ELSE /\ toasts' = <<SubmitFailed>>
         /\ UNCHANGED <<form, errors, isSubmitted, uploadedImages>>

\* onSubmit after its await, the try and catch blocks: response.ok resets the
\* form and the images; any other response throws, and the catch block, which a
\* rejected fetch enters too, reports the failure
afterResponse(outcome) ==
    IF responseOk(outcome)
    THEN /\ toasts' = <<SubmitSuccess>>
         /\ form' = defaultValues
         /\ errors' = {}
         /\ isSubmitted' = FALSE
         /\ uploadedImages' = <<>>
    ELSE /\ toasts' = <<SubmitFailed>>
         /\ UNCHANGED <<form, errors, isSubmitted, uploadedImages>>

\* the busy flag cleared at the end of the try block instead of in finally
finallyOnlyOk(outcome) == isSubmitting' = IF responseOk(outcome) THEN FALSE ELSE isSubmitting

\* onSubmit's finally block
finally(outcome) == isSubmitting' = FALSE

\* a settle that sends the request again when it failed
settleRetry(i, outcome) ==
    /\ i \in 1..Len(requests)
    /\ afterResponse(outcome)
    /\ IF responseOk(outcome)
       THEN /\ finally(outcome)
            /\ requests' = RemoveAt(requests, i)
       ELSE /\ UNCHANGED isSubmitting
            /\ requests' = Append(RemoveAt(requests, i), requests[i])
    /\ event' = [op |-> "settle", outcome |-> outcome]
    /\ UNCHANGED aiVars

\* a settle that puts the submitted values back when the request failed
settleRestores(i, outcome) ==
    /\ i \in 1..Len(requests)
    /\ IF responseOk(outcome)
       THEN afterResponse(outcome)
       ELSE /\ toasts' = <<SubmitFailed>>
            /\ form' = requests[i].data
            /\ UNCHANGED <<errors, isSubmitted, uploadedImages>>
    /\ finally(outcome)
    /\ requests' = RemoveAt(requests, i)
    /\ event' = [op |-> "settle", outcome |-> outcome]
    /\ UNCHANGED aiVars

\* onSubmit after its await: the fetch of requests[i] settles with the outcome
settle(i, outcome) ==
    /\ i \in 1..Len(requests)
    /\ afterResponse(outcome)
    /\ finally(outcome)
    /\ requests' = RemoveAt(requests, i)
    /\ event' = [op |-> "settle", outcome |-> outcome]
    /\ UNCHANGED aiVars

----------------------------------------------------------------------------
(* AI assist (the variant with the AI Generate modal) *)

\* the fixed endpoint of handleAIGenerate
AIEndpoint == "https://n8n-rksa.onrender.com/webhook/d5799868-0383-44fc-ba56-17dc7399bc69/chat"

\* what the user types into the prompt Textarea
Prompts == {"", "   ", "launch day"}

\* String.prototype.trim on the prompts
trim(text) ==
    CASE text = "   " -> ""
      [] OTHER -> text

\* JSON.stringify({ prompt: aiPrompt })
stringifyPrompt(text) == "{\"prompt\":\"" \o text \o "\"}"

\* data.<key> of a parsed JSON object: undefined when the key is absent
property(data, key) == IF key \in DOMAIN data THEN data[key] ELSE Undefined

\* a || b on strings and undefined
or(a, b) == IF a # Undefined /\ a # "" THEN a ELSE b

\* the caption taken from content first
pickCaptionContentFirst(data) == or(property(data, "content"), or(property(data, "caption"), ""))

\* data.caption || data.content || ''
pickCaption(data) == or(or(property(data, "caption"), property(data, "content")), "")

\* hashtags that ignore the response
pickHashtagsNever(data) == ""

\* data.hashtags || ''
pickHashtags(data) == or(property(data, "hashtags"), "")

\* the JSON objects the endpoint may answer with: each key absent or a string
AIObjects ==
    {[k \in D |-> v[k]] :
        D \in SUBSET {"caption", "content", "hashtags"},
        v \in [caption : {"", "AI caption"}, content : {"AI content"}, hashtags : {"#ai"}]}

\* how the AI fetch settles: a response with a status and a body that parses to
\* a JSON object, a response whose body does not parse, or a rejection
AIOutcomes ==
    {[status |-> 200, json |-> data] : data \in AIObjects}
    \cup {[status |-> 299, json |-> [caption |-> "AI caption", hashtags |-> "#ai"]],
          [status |-> 200, text |-> "<html>"],
          [status |-> 300, json |-> [caption |-> "AI caption"]],
          [status |-> 500, json |-> [caption |-> "AI caption"]],
          [rejected |-> "TypeError"]}

\* the AI Generate button of the card: onClick={() => setShowAIModal(true)}
openAIModal ==
    /\ ~showAIModal
    /\ showAIModal' = TRUE
    /\ toasts' = <<>>
    /\ event' = [op |-> "openAIModal"]
    /\ UNCHANGED <<form, errors, isSubmitted, uploadedImages, isSubmitting, requests,
                   aiPrompt, isGenerating, generations>>

\* a close that drops the generation in flight
closeAIModalAborts ==
    /\ showAIModal
    /\ showAIModal' = FALSE
    /\ isGenerating' = FALSE
    /\ generations' = <<>>
    /\ toasts' = <<>>
    /\ event' = [op |-> "closeAIModal"]
    /\ UNCHANGED <<form, errors, isSubmitted, uploadedImages, isSubmitting, requests, aiPrompt>>

\* the Cancel button, and the Dialog's onOpenChange on Escape or an outside click
closeAIModal ==
    /\ showAIModal
    /\ showAIModal' = FALSE
    /\ toasts' = <<>>
    /\ event' = [op |-> "closeAIModal"]
    /\ UNCHANGED <<form, errors, isSubmitted, uploadedImages, isSubmitting, requests,
                   aiPrompt, isGenerating, generations>>

\* the prompt Textarea of the open modal: onChange={(e) => setAiPrompt(e.target.value)}
setAiPrompt(value) ==
    /\ showAIModal
    /\ value # aiPrompt
    /\ aiPrompt' = value
    /\ toasts' = <<>>
    /\ event' = [op |-> "setAiPrompt"]
    /\ UNCHANGED <<form, errors, isSubmitted, uploadedImages, isSubmitting, requests,
                   showAIModal, isGenerating, generations>>

\* a Generate button disabled on a blank prompt only
generateDisabledBlankOnly == trim(aiPrompt) = ""

\* a Generate button disabled by a submission in flight as well
generateDisabledBusy == isGenerating \/ isSubmitting \/ trim(aiPrompt) = ""

\* the Generate Content button: disabled={isGenerating || !aiPrompt.trim()}
generateDisabled == isGenerating \/ trim(aiPrompt) = ""

\* handleAIGenerate up to its await: the guard on the prompt, the busy flag, the fetch
handleAIGenerate ==
    IF trim(aiPrompt) = ""
    THEN /\ toasts' = <<EnterPrompt>>
         /\ UNCHANGED <<isGenerating, generations>>
    ELSE /\ isGenerating' = TRUE
         /\ generations' = Append(generations,
                                  [url |-> AIEndpoint,
                                   method |-> "POST",
                                   body |-> stringifyPrompt(aiPrompt),
                                   aiPrompt |-> aiPrompt])
         /\ toasts' = <<>>

\* the user activates the Generate Content button of the open modal; a disabled
\* button runs no handler
generate ==
    /\ showAIModal
    /\ IF generateDisabled
       THEN /\ toasts' = <<>>
            /\ UNCHANGED <<isGenerating, generations>>
       ELSE handleAIGenerate
    /\ event' = [op |-> "generate", disabled |-> generateDisabled]
    /\ UNCHANGED <<form, errors, isSubmitted, uploadedImages, isSubmitting, requests,
                   showAIModal, aiPrompt>>

\* whether handleAIGenerate gets past response.ok and response.json()
generated(outcome) == responseOk(outcome) /\ "json" \in DOMAIN outcome

\* the try block resetting the other fields with the two it sets
afterGenerateResets(outcome) ==
    IF generated(outcome)
    THEN /\ form' = [defaultValues EXCEPT !.caption = pickCaption(outcome.json),
                                          !.hashtags = pickHashtags(outcome.json)]
         /\ toasts' = <<GenerateSuccess>>
         /\ showAIModal' = FALSE
         /\ aiPrompt' = ""
    ELSE /\ toasts' = <<GenerateFailed>>
         /\ UNCHANGED <<form, showAIModal, aiPrompt>>

\* the modal closed and the prompt cleared whatever the outcome
afterGenerateClosesAlways(outcome) ==
    /\ showAIModal' = FALSE
    /\ aiPrompt' = ""
    /\ IF generated(outcome)
       THEN /\ form' = [form EXCEPT !.caption = pickCaption(outcome.json),
                                    !.hashtags = pickHashtags(outcome.json)]
            /\ toasts' = <<GenerateSuccess>>
       ELSE /\ toasts' = <<GenerateFailed>>
            /\ UNCHANGED form

\* handleAIGenerate after its await, the try and catch blocks: a response that is
\* ok and parses sets caption and hashtags, closes the modal and clears the
\* prompt; anything else throws and the catch block reports the failure
afterGenerate(outcome) ==
    IF generated(outcome)
    THEN /\ form' = [form EXCEPT !.caption = pickCaption(outcome.json),
                                 !.hashtags = pickHashtags(outcome.json)]
         /\ toasts' = <<GenerateSuccess>>
         /\ showAIModal' = FALSE
         /\ aiPrompt' = ""
    ELSE /\ toasts' = <<GenerateFailed>>
         /\ UNCHANGED <<form, showAIModal, aiPrompt>>

\* handleAIGenerate after its await: the fetch of generations[i] settles
settleAI(i, outcome) ==
    /\ i \in 1..Len(generations)
    /\ afterGenerate(outcome)
    /\ isGenerating' = FALSE
    /\ generations' = RemoveAt(generations, i)
    /\ event' = [op |-> "settleAI", outcome |-> outcome, aiPrompt |-> generations[i].aiPrompt]
    /\ UNCHANGED <<errors, isSubmitted, uploadedImages, isSubmitting, requests>>

----------------------------------------------------------------------------
(* The form handlers of the AI variant (part_000) *)

\* part_000: the defaultValues of useForm
defaultValues_part000 ==
    [postTitle |-> "", caption |-> "", hashtags |-> "", platforms |-> <<>>,
     scheduledDate |-> Undefined, webhookUrl |-> ""]

\* part_000: the predicate of handleImageUpload's filter
validFile_part000(file) ==
    (file.type = "image/jpeg" \/ file.type = "image/png") /\ file.size <= 10 * 1024 * 1024

RECURSIVE filterValid_part000(_)
\* part_000: files.filter(file => validFile(file))
filterValid_part000(files) ==
    IF files = <<>> THEN <<>>
    ELSE IF validFile_part000(Head(files)) THEN <<Head(files)>> \o filterValid_part000(Tail(files))
    ELSE filterValid_part000(Tail(files))

\* part_000: the per-field rules of formSchema; TRUE when the field passes
formSchema_part000(data, field) ==
    CASE field = "postTitle" -> Len(data.postTitle) >= 1 /\ Len(data.postTitle) <= 100
      [] field = "caption" -> Len(data.caption) >= 1 /\ Len(data.caption) <= 2200
      [] field = "hashtags" -> TRUE
      [] field = "platforms" -> Len(data.platforms) >= 1
      [] field = "scheduledDate" -> data.scheduledDate # Undefined
      [] field = "webhookUrl" -> data.webhookUrl \in AbsoluteUrls

\* part_000: zodResolver(formSchema): the fields with an issue
resolver_part000(data) == {f \in FieldNames : ~formSchema_part000(data, f)}

\* part_000: uploadedImages.forEach: an entry image_${index} for each image
imageEntries_part000(images) ==
    [i \in 1..Len(images) |-> [name |-> "image_" \o ToString(i - 1), value |-> images[i]]]

\* part_000: the FormData onSubmit builds, as the ordered list of its entries
buildFormData_part000(data, images) ==
    << [name |-> "postTitle", value |-> data.postTitle],
       [name |-> "caption", value |-> data.caption],
       [name |-> "hashtags", value |-> orEmpty(data.hashtags)],
       [name |-> "platforms", value |-> stringify(data.platforms)],
       [name |-> "scheduledDate", value |-> toISOString(data.scheduledDate)] >>
    \o imageEntries_part000(images)

\* part_000: validFiles.length + uploadedImages.length > 4
tooMany_part000(files, validFiles) == Len(validFiles) + Len(uploadedImages) > 4

\* part_000: <input type="file" onChange={handleImageUpload}>, files being
\* e.target.files
handleImageUpload_part000(files) ==
    LET validFiles == filterValid_part000(files) IN
    /\ IF tooMany_part000(files, validFiles)
       THEN /\ toasts' = <<"Too many images">>
            /\ UNCHANGED uploadedImages
       ELSE /\ uploadedImages' = uploadedImages \o validFiles
            /\ toasts' = <<>>
    /\ event' = [op |-> "handleImageUpload", files |-> files]
    /\ UNCHANGED <<form, errors, isSubmitted, isSubmitting, requests, aiVars>>

\* part_000: the X button of a preview: onClick={() => removeImage(index)}
removeImage_part000(index) ==
    /\ uploadedImages' = filterIndex(uploadedImages, 0, index)
    /\ toasts' = <<>>
    /\ event' = [op |-> "removeImage", index |-> index]
    /\ UNCHANGED <<form, errors, isSubmitted, isSubmitting, requests, aiVars>>

\* part_000: field.onChange(value) of a registered field: the value is stored
\* and, once a submit has been attempted, the field is validated again
onChange_part000(field, value) ==
    /\ value # form[field]
    /\ form' = [form EXCEPT ![field] = value]
    /\ errors' = IF isSubmitted
                 THEN (errors \ {field}) \cup (resolver_part000(form') \cap {field})
                 ELSE errors
    /\ toasts' = <<>>
    /\ event' = [op |-> "onChange", field |-> field]
    /\ UNCHANGED <<isSubmitted, uploadedImages, isSubmitting, requests, aiVars>>

\* part_000: the Checkbox of a platform: checked is the negation of isSelected
onCheckedChange_part000(id) ==
    LET isSelected == Includes(form.platforms, id)
        checked == ~isSelected
    IN  IF checked
        THEN onChange_part000("platforms", form.platforms \o <<id>>)
        ELSE onChange_part000("platforms", filterValue(form.platforms, id))

\* part_000: the submit Button: disabled={isSubmitting}
submitDisabled_part000 == isSubmitting

\* part_000: onSubmit up to its await: the busy flag, the FormData and the
\* fetch call.  A pending call keeps what was sent (url, method, body) and
\* what the suspended closure holds (data, uploadedImages)
onSubmit_part000(data) ==
    /\ isSubmitting' = TRUE
    /\ requests' = Append(requests,
                          [url |-> data.webhookUrl,
                           method |-> "POST",
                           body |-> buildFormData_part000(data, uploadedImages),
                           data |-> data,
                           uploadedImages |-> uploadedImages])
    /\ toasts' = <<>>
    /\ UNCHANGED <<form, uploadedImages>>

\* part_000: form.handleSubmit(onSubmit): validate, then onSubmit or the field
\* errors
handleSubmit_part000 ==
    LET issues == resolver_part000(form) IN
    /\ isSubmitted' = TRUE
    /\ errors' = issues
    /\ IF issues = {}
       THEN onSubmit_part000(form)
       ELSE /\ toasts' = <<>>
            /\ UNCHANGED <<form, uploadedImages, isSubmitting, requests>>

\* part_000: the user activates the submit button; a disabled button submits
\* nothing
submit_part000 ==
    /\ IF submitDisabled_part000
       THEN /\ toasts' = <<>>
            /\ UNCHANGED <<form, errors, isSubmitted, uploadedImages, isSubmitting, requests>>
       ELSE handleSubmit_part000
    /\ event' = [op |-> "submit", disabled |-> submitDisabled_part000, valid |-> resolver_part000(form) = {}]
    /\ UNCHANGED aiVars

\* part_000: onSubmit after its await, the try and catch blocks: response.ok
\* resets the form and the images; any other response throws, and the catch
\* block, which a rejected fetch enters too, reports the failure
afterResponse_part000(outcome) ==
    IF responseOk(outcome)
    THEN /\ toasts' = <<"Content submitted successfully!">>
         /\ form' = defaultValues_part000
         /\ errors' = {}
         /\ isSubmitted' = FALSE
         /\ uploadedImages' = <<>>
    ELSE /\ toasts' = <<"Submission failed">>
         /\ UNCHANGED <<form, errors, isSubmitted, uploadedImages>>

\* part_000: onSubmit's finally block
finally_part000(outcome) == isSubmitting' = FALSE

\* part_000: onSubmit after its await: the fetch of requests[i] settles with
\* the outcome
settle_part000(i, outcome) ==
    /\ i \in 1..Len(requests)
    /\ afterResponse_part000(outcome)
    /\ finally_part000(outcome)
    /\ requests' = RemoveAt(requests, i)
    /\ event' = [op |-> "settle", outcome |-> outcome]
    /\ UNCHANGED aiVars
----------------------------------------------------------------------------
(* The form handlers of the compact variant (part_001) *)

\* part_001: the defaultValues of useForm
defaultValues_part001 ==
    [postTitle |-> "", caption |-> "", hashtags |-> "", platforms |-> <<>>,
     scheduledDate |-> Undefined, webhookUrl |-> ""]

\* part_001: the predicate of handleImageUpload's filter
validFile_part001(file) ==
    (file.type = "image/jpeg" \/ file.type = "image/png") /\ file.size <= 10 * 1024 * 1024

RECURSIVE filterValid_part001(_)
\* part_001: files.filter(file => validFile(file))
filterValid_part001(files) ==
    IF files = <<>> THEN <<>>
    ELSE IF validFile_part001(Head(files)) THEN <<Head(files)>> \o filterValid_part001(Tail(files))
    ELSE filterValid_part001(Tail(files))

\* part_001: the per-field rules of formSchema; TRUE when the field passes
formSchema_part001(data, field) ==
    CASE field = "postTitle" -> Len(data.postTitle) >= 1 /\ Len(data.postTitle) <= 100
      [] field = "caption" -> Len(data.caption) >= 1 /\ Len(data.caption) <= 2200
      [] field = "hashtags" -> TRUE
      [] field = "platforms" -> Len(data.platforms) >= 1
      [] field = "scheduledDate" -> data.scheduledDate # Undefined
      [] field = "webhookUrl" -> data.webhookUrl \in AbsoluteUrls

\* part_001: zodResolver(formSchema): the fields with an issue
resolver_part001(data) == {f \in FieldNames : ~formSchema_part001(data, f)}

\* part_001: uploadedImages.forEach: an entry image_${index} for each image
imageEntries_part001(images) ==
    [i \in 1..Len(images) |-> [name |-> "image_" \o ToString(i - 1), value |-> images[i]]]

\* part_001: the FormData onSubmit builds, as the ordered list of its entries
buildFormData_part001(data, images) ==
    << [name |-> "postTitle", value |-> data.postTitle],
       [name |-> "caption", value |-> data.caption],
       [name |-> "hashtags", value |-> orEmpty(data.hashtags)],
       [name |-> "platforms", value |-> stringify(data.platforms)],
       [name |-> "scheduledDate", value |-> toISOString(data.scheduledDate)] >>
    \o imageEntries_part001(images)

\* part_001: validFiles.length + uploadedImages.length > 4
tooMany_part001(files, validFiles) == Len(validFiles) + Len(uploadedImages) > 4

\* part_001: <input type="file" onChange={handleImageUpload}>, files being
\* e.target.files
handleImageUpload_part001(files) ==
    LET validFiles == filterValid_part001(files) IN
    /\ IF tooMany_part001(files, validFiles)
       THEN /\ toasts' = <<"Too many images">>
            /\ UNCHANGED uploadedImages
       ELSE /\ uploadedImages' = uploadedImages \o validFiles
            /\ toasts' = <<>>
    /\ event' = [op |-> "handleImageUpload", files |-> files]
    /\ UNCHANGED <<form, errors, isSubmitted, isSubmitting, requests, aiVars>>

\* part_001: the X button of a preview: onClick={() => removeImage(index)}
removeImage_part001(index) ==
    /\ uploadedImages' = filterIndex(uploadedImages, 0, index)
    /\ toasts' = <<>>
    /\ event' = [op |-> "removeImage", index |-> index]
    /\ UNCHANGED <<form, errors, isSubmitted, isSubmitting, requests, aiVars>>

\* part_001: field.onChange(value) of a registered field: the value is stored
\* and, once a submit has been attempted, the field is validated again
onChange_part001(field, value) ==
    /\ value # form[field]
    /\ form' = [form EXCEPT ![field] = value]
    /\ errors' = IF isSubmitted
                 THEN (errors \ {field}) \cup (resolver_part001(form') \cap {field})
                 ELSE errors
    /\ toasts' = <<>>
    /\ event' = [op |-> "onChange", field |-> field]
    /\ UNCHANGED <<isSubmitted, uploadedImages, isSubmitting, requests, aiVars>>

\* part_001: the Checkbox of a platform: checked is the negation of isSelected
onCheckedChange_part001(id) ==
    LET isSelected == Includes(form.platforms, id)
        checked == ~isSelected
    IN  IF checked
        THEN onChange_part001("platforms", form.platforms \o <<id>>)
        ELSE onChange_part001("platforms", filterValue(form.platforms, id))

\* part_001: the submit Button: disabled={isSubmitting}
submitDisabled_part001 == isSubmitting

\* part_001: onSubmit up to its await: the busy flag, the FormData and the
\* fetch call.  A pending call keeps what was sent (url, method, body) and
\* what the suspended closure holds (data, uploadedImages)
onSubmit_part001(data) ==
    /\ isSubmitting' = TRUE
    /\ requests' = Append(requests,
                          [url |-> data.webhookUrl,
                           method |-> "POST",
                           body |-> buildFormData_part001(data, uploadedImages),
                           data |-> data,
                           uploadedImages |-> uploadedImages])
    /\ toasts' = <<>>
    /\ UNCHANGED <<form, uploadedImages>>

\* part_001: form.handleSubmit(onSubmit): validate, then onSubmit or the field
\* errors
handleSubmit_part001 ==
    LET issues == resolver_part001(form) IN
    /\ isSubmitted' = TRUE
    /\ errors' = issues
    /\ IF issues = {}
       THEN onSubmit_part001(form)
       ELSE /\ toasts' = <<>>
            /\ UNCHANGED <<form, uploadedImages, isSubmitting, requests>>

\* part_001: the user activates the submit button; a disabled button submits
\* nothing
submit_part001 ==
    /\ IF submitDisabled_part001
       THEN /\ toasts' = <<>>
            /\ UNCHANGED <<form, errors, isSubmitted, uploadedImages, isSubmitting, requests>>
       ELSE handleSubmit_part001
    /\ event' = [op |-> "submit", disabled |-> submitDisabled_part001, valid |-> resolver_part001(form) = {}]
    /\ UNCHANGED aiVars

\* part_001: onSubmit after its await, the try and catch blocks: response.ok
\* resets the form and the images; any other response throws, and the catch
\* block, which a rejected fetch enters too, reports the failure
afterResponse_part001(outcome) ==
    IF responseOk(outcome)
    THEN /\ toasts' = <<"Content submitted successfully!">>
         /\ form' = defaultValues_part001
         /\ errors' = {}
         /\ isSubmitted' = FALSE
         /\ uploadedImages' = <<>>
    ELSE /\ toasts' = <<"Submission failed">>
         /\ UNCHANGED <<form, errors, isSubmitted, uploadedImages>>

\* part_001: onSubmit's finally block
finally_part001(outcome) == isSubmitting' = FALSE

\* part_001: onSubmit after its await: the fetch of requests[i] settles with
\* the outcome
settle_part001(i, outcome) ==
    /\ i \in 1..Len(requests)
    /\ afterResponse_part001(outcome)
    /\ finally_part001(outcome)
    /\ requests' = RemoveAt(requests, i)
    /\ event' = [op |-> "settle", outcome |-> outcome]
    /\ UNCHANGED aiVars
----------------------------------------------------------------------------
(* Specifications *)

\* what the user types and picks in the workflow specification
Titles == {"", "Launch"}
Captions == {"", "We shipped!"}
Hashtags == {"", "#launch"}
Urls == {"", "https://example.com/hook"}
PlatformIds == {"facebook"}
Files == {jpegOk}

EditTitle == \E v \in Titles : onChange("postTitle", v)
EditCaption == \E v \in Captions : onChange("caption", v)
EditHashtags == \E v \in Hashtags : onChange("hashtags", v)
EditDate == \E v \in Dates \cup {Undefined} : onChange("scheduledDate", v)
EditUrl == \E v \in Urls : onChange("webhookUrl", v)
TogglePlatform == \E id \in PlatformIds : onCheckedChange(id)
Upload == \E files \in SeqsUpTo(Files, MaxBatch) : handleImageUpload(files)
Remove == \E index \in 0..MaxImages : removeImage(index)
Settle == \E i \in 1..Len(requests), outcome \in Outcomes : settle(i, outcome)

Next ==
    \/ EditTitle
    \/ EditCaption
    \/ EditHashtags
    \/ EditDate
    \/ EditUrl
    \/ TogglePlatform
    \/ Upload
    \/ Remove
    \/ submit
    \/ Settle

Spec == Init /\ [][Next]_vars

\* the outbound request eventually resolves or rejects
FairSpec == Spec /\ WF_vars(Settle)

\* The attachment manager alone, over files of every kind
AttachFiles == {jpegOk, pngExact, pngOver, gifSmall}

UploadAny == \E files \in SeqsUpTo(AttachFiles, MaxBatch) : handleImageUpload(files)

NextAttach ==
    \/ UploadAny
    \/ Remove

SpecAttach == Init /\ [][NextAttach]_vars

\* Submission of an arbitrary draft: the drafts the user can have typed
DraftTitles == {"", "Launch", Rep(TitleMax), Rep(TitleMax + 1)}
DraftCaptions == {"", "We shipped!", Rep(CaptionMax), Rep(CaptionMax + 1)}
DraftHashtags == {"", "#launch", Rep(CaptionMax + 1)}
DraftUrls == {"", "not a url", "https://example.com/hook"}
DraftPlatforms ==
    {p \in SeqsUpTo({"facebook", "instagram", "linkedin"}, Len(platforms)) :
        \A i, j \in 1..Len(p) : i # j => p[i] # p[j]}

Drafts ==
    [postTitle : DraftTitles, caption : DraftCaptions, hashtags : DraftHashtags,
     platforms : DraftPlatforms, scheduledDate : Dates \cup {Undefined},
     webhookUrl : DraftUrls]

InitDrafts ==
    /\ form \in Drafts
    /\ errors = {}
    /\ isSubmitted = FALSE
    /\ uploadedImages = <<>>
    /\ isSubmitting = FALSE
    /\ requests = <<>>
    /\ toasts = <<>>
    /\ event = [op |-> "mount"]
    /\ showAIModal = FALSE
    /\ aiPrompt = ""
    /\ isGenerating = FALSE
    /\ generations = <<>>

NextDrafts ==
    \/ submit
    \/ Settle

SpecDrafts == InitDrafts /\ [][NextDrafts]_vars

\* The AI variant: the modal, the prompt and the generation, on a draft that is
\* empty or filled in, with the caption still editable
SampleDraft ==
    [postTitle |-> "Launch", caption |-> "We shipped!", hashtags |-> "#launch",
     platforms |-> <<"facebook">>, scheduledDate |-> "Tue Dec 01 2026",
     webhookUrl |-> "https://example.com/hook"]

InitAI ==
    /\ form \in {defaultValues, SampleDraft}
    /\ errors = {}
    /\ isSubmitted = FALSE
    /\ uploadedImages \in {<<>>, <<jpegOk>>}
    /\ isSubmitting = FALSE
    /\ requests = <<>>
    /\ toasts = <<>>
    /\ event = [op |-> "mount"]
    /\ showAIModal = FALSE
    /\ aiPrompt = ""
    /\ isGenerating = FALSE
    /\ generations = <<>>

EditPrompt == \E v \in Prompts : setAiPrompt(v)
SettleAI == \E i \in 1..Len(generations), outcome \in AIOutcomes : settleAI(i, outcome)

NextAI ==
    \/ openAIModal
    \/ closeAIModal
    \/ EditPrompt
    \/ generate
    \/ SettleAI
    \/ EditCaption

SpecAI == InitAI /\ [][NextAI]_vars

\* Submission with attachments of two kinds: what a request carries
PayloadDrafts ==
    {[SampleDraft EXCEPT !.hashtags = h, !.platforms = p] :
        h \in Hashtags, p \in {<<"facebook">>, <<"linkedin", "facebook">>}}

InitPayload ==
    /\ form \in PayloadDrafts
    /\ errors = {}
    /\ isSubmitted = FALSE
    /\ uploadedImages \in SeqsUpTo({jpegOk, pngExact}, MaxImages)
    /\ isSubmitting = FALSE
    /\ requests = <<>>
    /\ toasts = <<>>
    /\ event = [op |-> "mount"]
    /\ showAIModal = FALSE
    /\ aiPrompt = ""
    /\ isGenerating = FALSE
    /\ generations = <<>>

UploadOne == \E file \in {jpegOk, pngExact} : handleImageUpload(<<file>>)

NextPayload ==
    \/ submit
    \/ Settle
    \/ UploadOne
    \/ Remove

SpecPayload == InitPayload /\ [][NextPayload]_vars

\* The platform checkboxes, all three, across submissions and their resets
InitPlatforms ==
    /\ form = [SampleDraft EXCEPT !.platforms = <<>>]
    /\ errors = {}
    /\ isSubmitted = FALSE
    /\ uploadedImages = <<>>
    /\ isSubmitting = FALSE
    /\ requests = <<>>
    /\ toasts = <<>>
    /\ event = [op |-> "mount"]
    /\ showAIModal = FALSE
    /\ aiPrompt = ""
    /\ isGenerating = FALSE
    /\ generations = <<>>

ToggleAnyPlatform == \E i \in 1..Len(platforms) : onCheckedChange(platforms[i])

NextPlatforms ==
    \/ ToggleAnyPlatform
    \/ submit
    \/ Settle

SpecPlatforms == InitPlatforms /\ [][NextPlatforms]_vars

\* The AI variant with a submission and a generation side by side, on a draft
\* that is filled in
InitBoth ==
    /\ form = SampleDraft
    /\ errors = {}
    /\ isSubmitted = FALSE
    /\ uploadedImages = <<>>
    /\ isSubmitting = FALSE
    /\ requests = <<>>
    /\ toasts = <<>>
    /\ event = [op |-> "mount"]
    /\ showAIModal = FALSE
    /\ aiPrompt = ""
    /\ isGenerating = FALSE
    /\ generations = <<>>

NextBoth ==
    \/ submit
    \/ Settle
    \/ openAIModal
    \/ closeAIModal
    \/ EditPrompt
    \/ generate
    \/ SettleAI

SpecBoth == InitBoth /\ [][NextBoth]_vars

\* The three variants side by side, on the events they share: field edits,
\* adds, removes, submits and settlements, from a draft that lacks its title
\* only
InitVariants ==
    /\ form = [SampleDraft EXCEPT !.postTitle = ""]
    /\ errors = {}
    /\ isSubmitted = FALSE
    /\ uploadedImages = <<>>
    /\ isSubmitting = FALSE
    /\ requests = <<>>
    /\ toasts = <<>>
    /\ event = [op |-> "mount"]
    /\ showAIModal = FALSE
    /\ aiPrompt = ""
    /\ isGenerating = FALSE
    /\ generations = <<>>

VariantTitles == {"", Rep(TitleMax), Rep(TitleMax + 1)}
VariantFiles == {jpegOk, pngOver}

NextMain ==
    \/ \E v \in VariantTitles : onChange("postTitle", v)
    \/ \E id \in PlatformIds : onCheckedChange(id)
    \/ \E files \in SeqsUpTo(VariantFiles, MaxBatch) : handleImageUpload(files)
    \/ \E index \in 0..MaxImages : removeImage(index)
    \/ submit
    \/ \E i \in 1..Len(requests), outcome \in Outcomes : settle(i, outcome)

NextAIVariant ==
    \/ \E v \in VariantTitles : onChange_part000("postTitle", v)
    \/ \E id \in PlatformIds : onCheckedChange_part000(id)
    \/ \E files \in SeqsUpTo(VariantFiles, MaxBatch) : handleImageUpload_part000(files)
    \/ \E index \in 0..MaxImages : removeImage_part000(index)
    \/ submit_part000
    \/ \E i \in 1..Len(requests), outcome \in Outcomes : settle_part000(i, outcome)

NextCompactVariant ==
    \/ \E v \in VariantTitles : onChange_part001("postTitle", v)
    \/ \E id \in PlatformIds : onCheckedChange_part001(id)
    \/ \E files \in SeqsUpTo(VariantFiles, MaxBatch) : handleImageUpload_part001(files)
    \/ \E index \in 0..MaxImages : removeImage_part001(index)
    \/ submit_part001
    \/ \E i \in 1..Len(requests), outcome \in Outcomes : settle_part001(i, outcome)

NextVariants ==
    \/ NextMain
    \/ NextAIVariant
    \/ NextCompactVariant

SpecVariants == InitVariants /\ [][NextVariants]_vars

----------------------------------------------------------------------------
(* Vocabulary of the properties, stated apart from the handlers *)

\* a response status in the 2xx range
Is2xx(outcome) == "status" \in DOMAIN outcome /\ outcome.status \in 200..299

\* a file an attachment may be: JPEG or PNG of at most 10 MiB
Acceptable(file) == file.type \in {"image/jpeg", "image/png"} /\ file.size <= 10485760

\* the elements of a sequence
Range(s) == {s[i] : i \in 1..Len(s)}

\* the draft as mounted
EmptyDraft ==
    [postTitle |-> "", caption |-> "", hashtags |-> "", platforms |-> <<>>,
     scheduledDate |-> Undefined, webhookUrl |-> ""]

\* the fields of a draft that break a rule of the data model
RulesViolated(d) ==
    (IF d.postTitle = "" \/ Len(d.postTitle) > 100 THEN {"postTitle"} ELSE {})
    \cup (IF d.caption = "" \/ Len(d.caption) > 2200 THEN {"caption"} ELSE {})
    \cup (IF d.platforms = <<>> THEN {"platforms"} ELSE {})
    \cup (IF d.scheduledDate = Undefined THEN {"scheduledDate"} ELSE {})
    \cup (IF d.webhookUrl \notin AbsoluteUrls THEN {"webhookUrl"} ELSE {})

----------------------------------------------------------------------------
(* Properties *)

\* C1: single-flight submission.  At most one submission request is outstanding
\* at any time, and no step taken while isSubmitting is true, a further submit
\* event included, dispatches another request.
C1_SingleFlight ==
    /\ [](Len(requests) <= 1)
    /\ [][isSubmitting => Len(requests') <= Len(requests)]_vars

\* a submit event arrived while a request was in flight and dispatched nothing
C1_Witness ==
    /\ isSubmitting
    /\ Len(requests) = 1
    /\ event.op = "submit"
    /\ event.disabled

\* C2: validation completeness.  A submit event on a draft that violates at least
\* one rule reports an error for every violated field, not only the first, and
\* issues no network request.
C2_ValidationComplete ==
    [][(event'.op = "submit" /\ RulesViolated(form) # {})
        => (errors' = RulesViolated(form) /\ requests' = requests /\ generations' = generations)]_vars

\* a submit of a draft that breaks five rules at once reported all five
C2_Witness ==
    /\ event.op = "submit"
    /\ Len(form.postTitle) > 100
    /\ Len(form.caption) > 2200
    /\ form.webhookUrl = "not a url"
    /\ errors = {"postTitle", "caption", "platforms", "scheduledDate", "webhookUrl"}
    /\ requests = <<>>

\* C3 as stated: after a submission has failed, the draft fields and the
\* attachments are as they were when the submission was initiated.
C3_AsInitiated ==
    [][(event'.op = "settle" /\ ~Is2xx(event'.outcome))
        => (form' = requests[1].data /\ uploadedImages' = requests[1].uploadedImages)]_vars

\* C3 as amended: the resolution of a failed submission (a non-2xx response or a
\* rejected fetch) changes no draft field and leaves the attachment sequence as
\* it was just before the resolution.
C3_FailureKeepsDraft ==
    [][(event'.op = "settle" /\ ~Is2xx(event'.outcome))
        => (form' = form /\ uploadedImages' = uploadedImages)]_vars

\* a submission failed with status 500 and left a filled draft with two images
C3_Witness ==
    /\ event.op = "settle"
    /\ event.outcome = [status |-> 500]
    /\ toasts = <<SubmitFailed>>
    /\ RulesViolated(form) = {}
    /\ Len(uploadedImages) = 2

\* C4: success reset.  When a submission resolves with a 2xx response every
\* draft field takes its initial empty value and the attachment sequence is
\* emptied; a submit event right after it fails validation and dispatches nothing.
C4_SuccessReset ==
    /\ [][(event'.op = "settle" /\ Is2xx(event'.outcome))
            => (form' = EmptyDraft /\ uploadedImages' = <<>>)]_vars
    /\ [][(event.op = "settle" /\ Is2xx(event.outcome) /\ event'.op = "submit")
            => (errors' # {} /\ requests' = <<>> /\ ~isSubmitting')]_vars

\* a submission resolved with status 299 and the draft and attachments are empty
C4_Witness ==
    /\ event.op = "settle"
    /\ event.outcome = [status |-> 299]
    /\ toasts = <<SubmitSuccess>>
    /\ form = EmptyDraft
    /\ uploadedImages = <<>>

\* C5: attachment cap.  In every reachable state the attachment sequence holds
\* at most 4 items.
C5_AttachmentCap == Len(uploadedImages) <= 4

\* a selection was refused with the sequence at its cap
C5_Witness ==
    /\ Len(uploadedImages) = 4
    /\ event.op = "handleImageUpload"
    /\ toasts = <<TooManyImages>>

\* C6: all-or-nothing batch rejection.  When the accepted files of a batch plus
\* the current attachments exceed 4, the sequence is unchanged and the warning is
\* emitted; when they are at most 4, every accepted file is added.
C6_AllOrNothing ==
    [][event'.op = "handleImageUpload" =>
        LET accepted == SelectSeq(event'.files, Acceptable) IN
        IF Len(accepted) + Len(uploadedImages) > 4
        THEN uploadedImages' = uploadedImages /\ toasts' = <<"Too many images">>
        ELSE /\ Len(uploadedImages') = Len(uploadedImages) + Len(accepted)
             /\ Range(accepted) \subseteq Range(uploadedImages')
             /\ toasts' # <<"Too many images">>]_vars

\* three attachments, a batch of three valid files: refused, the count stays 3
C6_Witness ==
    /\ event.op = "handleImageUpload"
    /\ Len(event.files) = 3
    /\ \A k \in 1..3 : Acceptable(event.files[k])
    /\ Len(uploadedImages) = 3
    /\ toasts = <<TooManyImages>>

\* C7 as stated: a batch whose raw length plus the current attachment count
\* exceeds 4 is rejected wholesale, whatever the filter would keep.
C7_RawLengthCheck ==
    [][(event'.op = "handleImageUpload" /\ Len(event'.files) + Len(uploadedImages) > 4)
        => (uploadedImages' = uploadedImages /\ toasts' = <<"Too many images">>)]_vars

\* C7 as amended: the check is made on the files that pass the type/size filter.
\* A batch is rejected exactly when its accepted files plus the current count
\* exceed 4; a batch whose raw length would exceed the cap but whose accepted
\* files fit is accepted, and its accepted files are appended.
C7_FilteredLengthCheck ==
    [][event'.op = "handleImageUpload" =>
        LET accepted == SelectSeq(event'.files, Acceptable) IN
        /\ (toasts' = <<"Too many images">>) <=> (Len(accepted) + Len(uploadedImages) > 4)
        /\ (Len(event'.files) + Len(uploadedImages) > 4 /\ Len(accepted) + Len(uploadedImages) <= 4)
              => uploadedImages' = uploadedImages \o accepted]_vars

\* a batch too long as selected was accepted because its valid files fit
C7_Witness ==
    /\ event.op = "handleImageUpload"
    /\ toasts = <<>>
    /\ SelectSeq(event.files, Acceptable) # <<>>
    /\ Len(uploadedImages) = 4
    /\ Len(event.files) + (Len(uploadedImages) - Len(SelectSeq(event.files, Acceptable))) > 4

\* C8: type/size invariant.  Every attachment is a JPEG or PNG of at most
\* 10485760 bytes, and a file failing the predicate is dropped without keeping
\* the valid files of its batch from being added.
C8_TypeSize ==
    /\ [](\A i \in 1..Len(uploadedImages) :
            /\ uploadedImages[i].type \in {"image/jpeg", "image/png"}
            /\ uploadedImages[i].size <= 10485760)
    /\ [][(/\ event'.op = "handleImageUpload"
           /\ Len(SelectSeq(event'.files, Acceptable)) + Len(uploadedImages) <= 4)
            => \A k \in 1..Len(event'.files) :
                  Acceptable(event'.files[k]) => event'.files[k] \in Range(uploadedImages')]_vars

\* a PNG of exactly 10485760 bytes was added from a batch whose PNG of 10485761
\* bytes and whose GIF were dropped
C8_Witness ==
    /\ event.op = "handleImageUpload"
    /\ event.files = <<pngOver, pngExact, gifSmall>>
    /\ uploadedImages = <<jpegOk, pngExact>>
    /\ toasts = <<>>

\* C9: remove(index) with an index in range deletes exactly the attachment at
\* that position and keeps the others in their order; with an index out of range
\* it leaves the sequence unchanged.
C9_RemoveAtIndex ==
    [][event'.op = "removeImage" =>
        LET index == event'.index IN
        IF index >= 0 /\ index < Len(uploadedImages)
        THEN uploadedImages' =
                SubSeq(uploadedImages, 1, index) \o SubSeq(uploadedImages, index + 2, Len(uploadedImages))
        ELSE uploadedImages' = uploadedImages]_vars

\* the second of three attachments was removed: index 1 is in range of the two
\* that are left, so the removal took one out
C9_Witness ==
    /\ event.op = "removeImage"
    /\ event.index = 1
    /\ uploadedImages = <<pngExact, jpegOk>>

\* C10: return to Idle.  Every entry into the Submitting state is followed by the
\* Idle state once the request settles, whatever the outcome, and isSubmitting is
\* never true with no request left to settle.
C10_ReturnToIdle ==
    /\ [](isSubmitting => requests # <<>>)
    /\ isSubmitting ~> ~isSubmitting

\* a rejected fetch brought the component back to Idle
C10_Witness ==
    /\ event.op = "settle"
    /\ event.outcome = [rejected |-> "TypeError"]
    /\ ~isSubmitting
    /\ requests = <<>>
    /\ toasts = <<SubmitFailed>>

----------------------------------------------------------------------------
(* C11 *)

\* the name the claim gives to the payload field of the attachment at position i
ImageKey(i) ==
    CASE i = 0 -> "image_0"
      [] i = 1 -> "image_1"
      [] i = 2 -> "image_2"
      [] i = 3 -> "image_3"

TextKeys == {"postTitle", "caption", "hashtags", "platforms", "scheduledDate"}

\* C11: the payload of a dispatched request has exactly one field image_i for
\* each attachment position i of the attachments at submit time, counted from
\* zero without gaps and never beyond image_3, image_i carries the attachment
\* at position i, and the payload has no other field besides the text fields
C11_PayloadImages ==
    [][(event'.op = "submit" /\ Len(requests') > Len(requests)) =>
        LET body == requests'[Len(requests')].body
            named(key) == {j \in 1..Len(body) : body[j].name = key}
        IN /\ Len(uploadedImages) <= 4
           /\ \A i \in 0..3 :
                IF i < Len(uploadedImages)
                THEN \E j \in 1..Len(body) :
                        /\ named(ImageKey(i)) = {j}
                        /\ body[j].value = uploadedImages[i + 1]
                ELSE named(ImageKey(i)) = {}
           /\ \A j \in 1..Len(body) :
                body[j].name \in TextKeys
                    \cup {ImageKey(i) : i \in 0..(Len(uploadedImages) - 1)}]_vars

\* a request in flight that carries four attachments of two kinds
C11_Witness ==
    /\ event.op = "submit"
    /\ Len(requests) = 1
    /\ uploadedImages = <<jpegOk, pngExact, pngExact, jpegOk>>
    /\ Len(requests[1].body) = 9
    /\ requests[1].body[7].name = "image_1"
    /\ requests[1].body[7].value = pngExact

----------------------------------------------------------------------------
(* C12 *)

\* C12: a submit that passes validation dispatches exactly one POST to the
\* webhook URL of the draft, and no other step dispatches anything: a settled
\* attempt, failed or not, leaves one pending request fewer and every other
\* step leaves the pending requests as they are, so that the requests
\* dispatched never outnumber the validated submits
C12_SingleAttempt ==
    [][IF event'.op = "submit" /\ ~isSubmitting /\ RulesViolated(form) = {}
       THEN /\ Len(requests') = Len(requests) + 1
            /\ SubSeq(requests', 1, Len(requests)) = requests
            /\ requests'[Len(requests')].method = "POST"
            /\ requests'[Len(requests')].url = form.webhookUrl
       ELSE IF event'.op = "settle"
            THEN Len(requests') = Len(requests) - 1
            ELSE requests' = requests]_vars

\* a failed attempt has settled: nothing is in flight, the draft is kept
C12_Witness ==
    /\ event.op = "settle"
    /\ event.outcome = [status |-> 500]
    /\ requests = <<>>
    /\ form.postTitle = "Launch"
    /\ RulesViolated(form) = {}

----------------------------------------------------------------------------
(* C13 *)

\* C13: every settled attempt emits exactly one toast: the success toast when
\* the outcome is a 2xx response, the failure toast otherwise
C13_OneNotification ==
    [][event'.op = "settle" =>
        toasts' = IF Is2xx(event'.outcome)
                  THEN <<"Content submitted successfully!">>
                  ELSE <<"Submission failed">>]_vars

\* an attempt settled by a 299 response with the success toast alone
C13_Witness ==
    /\ event.op = "settle"
    /\ event.outcome = [status |-> 299]
    /\ toasts = <<"Content submitted successfully!">>

----------------------------------------------------------------------------
(* The claims' vocabulary for the AI assist *)

\* a prompt that is empty or whitespace only
Blank(text) == text \in {"", "   "}

\* the AI response carries the key
Present(data, key) == key \in DOMAIN data

\* the AI response carries the key with a non-empty value
NonEmpty(data, key) == key \in DOMAIN data /\ data[key] # ""

\* the generation succeeded: a 2xx response whose body is a JSON object
Generated(outcome) == Is2xx(outcome) /\ "json" \in DOMAIN outcome

----------------------------------------------------------------------------
(* C14 *)

\* C14: activating generate on an empty or whitespace-only prompt sends no
\* request, does not enter Generating, emits the warning toast and leaves the
\* form fields, the prompt and the modal unchanged
C14_BlankPromptWarns ==
    [][(event'.op = "generate" /\ Blank(aiPrompt)) =>
        /\ generations' = generations
        /\ isGenerating' = isGenerating
        /\ toasts' = <<"Please enter a prompt">>
        /\ form' = form
        /\ aiPrompt' = aiPrompt
        /\ showAIModal' = showAIModal]_vars

----------------------------------------------------------------------------
(* C15 *)

\* C15: a generation request is dispatched only by a generate step taken
\* while isGenerating is false and nothing is in flight, so that at most one
\* is ever in flight, whatever the user did to the modal in between
C15_SingleFlightGeneration ==
    [][/\ Len(generations') <= 1
       /\ Len(generations') > Len(generations) =>
            /\ event'.op = "generate"
            /\ ~isGenerating
            /\ generations = <<>>
       /\ isGenerating => Len(generations') <= Len(generations)]_vars

\* the modal was closed and is open again while the request is in flight, and
\* generate was activated on a non-blank prompt without effect
C15_Witness ==
    /\ event.op = "generate"
    /\ event.disabled
    /\ isGenerating
    /\ showAIModal
    /\ ~Blank(aiPrompt)
    /\ Len(generations) = 1

----------------------------------------------------------------------------
(* C16 *)

\* C16: no reachable state has isGenerating true and the modal closed
C16_ModalOpenWhileGenerating == isGenerating => showAIModal

----------------------------------------------------------------------------
(* C17 *)

\* C17 as stated: when a generation fails the failure toast is emitted,
\* isGenerating is false, the modal is open, the prompt is the one that was
\* submitted and no form field is modified
C17_FailureModalOpenPromptKept ==
    [][(event'.op = "settleAI" /\ ~Generated(event'.outcome)) =>
        /\ toasts' = <<"Generation failed">>
        /\ ~isGenerating'
        /\ showAIModal'
        /\ aiPrompt' = event'.aiPrompt
        /\ form' = form]_vars

\* C17: when a generation fails (a non-2xx response, a rejected fetch or a
\* body that does not parse) the failure toast is emitted, isGenerating is
\* false, no form field and no attachment is modified, and the failure changes
\* neither the modal nor the prompt: they are as the user left them
C17_FailureFrame ==
    [][(event'.op = "settleAI" /\ ~Generated(event'.outcome)) =>
        /\ toasts' = <<"Generation failed">>
        /\ ~isGenerating'
        /\ showAIModal' = showAIModal
        /\ aiPrompt' = aiPrompt
        /\ form' = form
        /\ uploadedImages' = uploadedImages]_vars

\* a generation failed by a 500 response: the modal is open with the prompt
C17_Witness ==
    /\ event.op = "settleAI"
    /\ event.outcome = [status |-> 500, json |-> [caption |-> "AI caption"]]
    /\ toasts = <<"Generation failed">>
    /\ ~isGenerating
    /\ showAIModal
    /\ aiPrompt = "launch day"
    /\ form = SampleDraft

----------------------------------------------------------------------------
(* C18 *)

\* C18: a successful generation overwrites caption and hashtags and nothing
\* else: title, platforms, date, webhook URL and attachments are unchanged, the
\* modal is closed, the prompt is cleared and isGenerating is false
C18_SuccessFrame ==
    [][(event'.op = "settleAI" /\ Generated(event'.outcome)) =>
        /\ \A field \in FieldNames \ {"caption", "hashtags"} : form'[field] = form[field]
        /\ uploadedImages' = uploadedImages
        /\ ~showAIModal'
        /\ aiPrompt' = ""
        /\ ~isGenerating'
        /\ generations' = <<>>]_vars

\* a generation succeeded on a filled-in draft with an attachment
C18_Witness ==
    /\ event.op = "settleAI"
    /\ Generated(event.outcome)
    /\ form = [SampleDraft EXCEPT !.caption = "AI caption", !.hashtags = "#ai"]
    /\ uploadedImages = <<jpegOk>>
    /\ ~showAIModal
    /\ aiPrompt = ""
    /\ ~isGenerating

----------------------------------------------------------------------------
(* C19 *)

\* C19 as stated: on a successful response caption becomes the response's
\* caption if that key is present, else its content if present, else the empty
\* string, hashtags becomes the response's hashtags if present, else the empty
\* string, and the success toast alone is emitted whatever keys are lacking
C19_PresentFirst ==
    [][(event'.op = "settleAI" /\ Generated(event'.outcome)) =>
        LET data == event'.outcome.json IN
        /\ form'.caption = IF Present(data, "caption") THEN data.caption
                           ELSE IF Present(data, "content") THEN data.content
                           ELSE ""
        /\ form'.hashtags = IF Present(data, "hashtags") THEN data.hashtags ELSE ""
        /\ toasts' = <<"Content generated successfully!">>]_vars

\* C19: on a successful response caption becomes the response's caption if it
\* is present and not empty, else its content if present and not empty, else
\* the empty string, hashtags becomes the response's hashtags if present, else
\* the empty string, and the success toast alone is emitted whatever keys the
\* JSON object lacks
C19_NonEmptyFirst ==
    [][(event'.op = "settleAI" /\ Generated(event'.outcome)) =>
        LET data == event'.outcome.json IN
        /\ form'.caption = IF NonEmpty(data, "caption") THEN data.caption
                           ELSE IF NonEmpty(data, "content") THEN data.content
                           ELSE ""
        /\ form'.hashtags = IF Present(data, "hashtags") THEN data.hashtags ELSE ""
        /\ toasts' = <<"Content generated successfully!">>]_vars

\* a response with an empty caption and a content: the content is taken, and
\* the lacking hashtags give the empty string
C19_Witness ==
    /\ event.op = "settleAI"
    /\ Generated(event.outcome)
    /\ DOMAIN event.outcome.json = {"caption", "content"}
    /\ event.outcome.json.caption = ""
    /\ form.caption = "AI content"
    /\ form.hashtags = ""
    /\ toasts = <<"Content generated successfully!">>

----------------------------------------------------------------------------
(* C20 *)

\* C20: a submit that fails validation changes no field of the draft, leaves
\* the attachments unchanged, dispatches nothing and leaves isSubmitting
\* false; of the state only the field errors (and the form's submitted mark)
\* change
C20_ValidationFailureFrame ==
    [][(event'.op = "submit" /\ ~isSubmitting /\ RulesViolated(form) # {}) =>
        /\ form' = form
        /\ uploadedImages' = uploadedImages
        /\ isSubmitting' = FALSE
        /\ requests' = requests
        /\ toasts' = <<>>
        /\ errors' # {}
        /\ UNCHANGED aiVars]_vars

\* a failed submit of a partly filled draft with an attachment
C20_Witness ==
    /\ event.op = "submit"
    /\ ~event.disabled
    /\ ~event.valid
    /\ form.postTitle = "Launch"
    /\ form.webhookUrl = ""
    /\ uploadedImages = <<jpegOk>>
    /\ ~isSubmitting
    /\ errors # {}

----------------------------------------------------------------------------
(* C21 *)

\* C21: an add that changes the attachments leaves the previous attachments
\* as an unchanged prefix of the new sequence, and what follows the prefix is
\* the accepted files of the batch in the order they had in the batch
C21_AppendOrder ==
    [][(event'.op = "handleImageUpload" /\ uploadedImages' # uploadedImages) =>
        /\ Len(uploadedImages') > Len(uploadedImages)
        /\ SubSeq(uploadedImages', 1, Len(uploadedImages)) = uploadedImages
        /\ SubSeq(uploadedImages', Len(uploadedImages) + 1, Len(uploadedImages'))
             = SelectSeq(event'.files, Acceptable)]_vars

\* a batch of a png, a gif and a jpeg added to one jpeg: png and jpeg follow it
C21_Witness ==
    /\ event.op = "handleImageUpload"
    /\ event.files = <<pngExact, gifSmall, jpegOk>>
    /\ uploadedImages = <<jpegOk, pngExact, jpegOk>>

----------------------------------------------------------------------------
(* C22 *)

\* C22: a submit reports the title exactly when its length is not in 1..100
\* and the caption exactly when its length is not in 1..2200, and never
\* reports the hashtags, whatever their length
C22_LengthBounds ==
    [][(event'.op = "submit" /\ ~isSubmitting) =>
        /\ ("postTitle" \notin errors')
              <=> (1 <= Len(form.postTitle) /\ Len(form.postTitle) <= 100)
        /\ ("caption" \notin errors')
              <=> (1 <= Len(form.caption) /\ Len(form.caption) <= 2200)
        /\ "hashtags" \notin errors']_vars

\* a draft with a title of 100 and a caption of 2200 characters, and hashtags
\* longer than that, passed validation and was dispatched
C22_Witness ==
    /\ event.op = "submit"
    /\ event.valid
    /\ Len(requests) = 1
    /\ Len(requests[1].data.postTitle) = 100
    /\ Len(requests[1].data.caption) = 2200
    /\ Len(requests[1].data.hashtags) = 2201

----------------------------------------------------------------------------
(* C23 *)

\* the value of the payload field with the name
Field(body, name) == body[CHOOSE j \in 1..Len(body) : body[j].name = name].value

\* C23: a dispatched request carries the webhook URL, the field values and the
\* attachments of the moment its submit passed validation, and no later step
\* alters a request in flight: an edit, an add or a remove leaves the pending
\* requests as they are and a settlement only takes the settled one away
C23_ImmutableSnapshot ==
    [][IF event'.op = "submit" /\ Len(requests') > Len(requests)
       THEN LET sent == requests'[Len(requests')] IN
            /\ SubSeq(requests', 1, Len(requests)) = requests
            /\ sent.url = form.webhookUrl
            /\ sent.data = form
            /\ Field(sent.body, "postTitle") = form.postTitle
            /\ Field(sent.body, "caption") = form.caption
            /\ Field(sent.body, "hashtags") = form.hashtags
            /\ sent.uploadedImages = uploadedImages
            /\ Len(sent.body) = 5 + Len(uploadedImages)
            /\ \A i \in 1..Len(uploadedImages) :
                 Field(sent.body, ImageKey(i - 1)) = uploadedImages[i]
       ELSE IF event'.op = "settle"
            THEN \E i \in 1..Len(requests) :
                   requests' = SubSeq(requests, 1, i - 1) \o SubSeq(requests, i + 1, Len(requests))
            ELSE requests' = requests]_vars

\* the caption was emptied and the attachment removed while the request that
\* carries them is in flight
C23_Witness ==
    /\ isSubmitting
    /\ Len(requests) = 1
    /\ Field(requests[1].body, "caption") = "We shipped!"
    /\ form.caption = ""
    /\ Len(requests[1].body) = 6
    /\ Field(requests[1].body, "image_0") = jpegOk
    /\ uploadedImages = <<>>

----------------------------------------------------------------------------
(* C24 *)

\* C24: on field edits, adds, removes, submits and settlements the three
\* variants make the same steps: from every state, a step that one variant
\* takes on an event, with the requests it dispatches, is the step that each
\* of the others takes on that event
C24_VariantEquivalence ==
    [][/\ event'.op = "handleImageUpload" =>
            /\ handleImageUpload_part000(event'.files) <=> handleImageUpload(event'.files)
            /\ handleImageUpload_part000(event'.files) <=> handleImageUpload_part001(event'.files)
       /\ event'.op = "removeImage" =>
            /\ removeImage_part000(event'.index) <=> removeImage(event'.index)
            /\ removeImage_part000(event'.index) <=> removeImage_part001(event'.index)
       /\ (event'.op = "onChange" /\ event'.field # "platforms") =>
            /\ onChange_part000(event'.field, form'[event'.field])
                 <=> onChange(event'.field, form'[event'.field])
            /\ onChange_part000(event'.field, form'[event'.field])
                 <=> onChange_part001(event'.field, form'[event'.field])
       /\ (event'.op = "onChange" /\ event'.field = "platforms") =>
            \A id \in {"facebook", "instagram", "linkedin"} :
                /\ onCheckedChange_part000(id) <=> onCheckedChange(id)
                /\ onCheckedChange_part000(id) <=> onCheckedChange_part001(id)
       /\ event'.op = "submit" =>
            /\ submit_part000 <=> submit
            /\ submit_part000 <=> submit_part001
       /\ event'.op = "settle" =>
            \A i \in 1..Len(requests) :
                /\ settle_part000(i, event'.outcome) <=> settle(i, event'.outcome)
                /\ settle_part000(i, event'.outcome) <=> settle_part001(i, event'.outcome)]_vars

\* a draft completed by its title was submitted with two attachments, and the
\* request is in flight
C24_Witness ==
    /\ event.op = "submit"
    /\ event.valid
    /\ isSubmitting
    /\ Len(requests) = 1
    /\ Len(requests[1].data.postTitle) = 100
    /\ Len(requests[1].body) = 7

----------------------------------------------------------------------------
(* C25 *)

\* C25: isSubmitting changes only in submit and settle steps and isGenerating
\* only in generate and settleAI steps; no step of the one operation touches
\* the other's request or flag; a valid submit is dispatched whether or not a
\* generation is in flight, a generate on a prompt whether or not a submission
\* is; and each flag is cleared by the settlement of its own request
C25_IndependentFlags ==
    [][/\ isSubmitting' # isSubmitting => event'.op \in {"submit", "settle"}
       /\ isGenerating' # isGenerating => event'.op \in {"generate", "settleAI"}
       /\ event'.op \in {"openAIModal", "closeAIModal", "setAiPrompt", "generate", "settleAI"} =>
            /\ requests' = requests
            /\ isSubmitting' = isSubmitting
       /\ event'.op \in {"submit", "settle"} =>
            /\ generations' = generations
            /\ isGenerating' = isGenerating
       /\ (event'.op = "submit" /\ ~isSubmitting /\ RulesViolated(form) = {}) =>
            /\ isSubmitting'
            /\ Len(requests') = Len(requests) + 1
       /\ (event'.op = "generate" /\ ~isGenerating /\ ~Blank(aiPrompt)) =>
            /\ isGenerating'
            /\ Len(generations') = Len(generations) + 1
       /\ event'.op = "settle" => ~isSubmitting'
       /\ event'.op = "settleAI" => ~isGenerating']_vars

\* a submission and a generation are in flight together
C25_Witness ==
    /\ isSubmitting
    /\ isGenerating
    /\ Len(requests) = 1
    /\ Len(generations) = 1

----------------------------------------------------------------------------
(* C26 *)

\* C26: a generation that succeeds on the draft a successful submission has
\* reset gives caption and hashtags the values of the response and leaves every
\* other field at its initial empty value; a submission that succeeds, be it
\* after a generation has filled caption and hashtags, makes both empty
C26_OverlappingCompletions ==
    [][/\ (event'.op = "settleAI" /\ Generated(event'.outcome) /\ form = EmptyDraft) =>
            LET data == event'.outcome.json IN
            /\ \A field \in FieldNames \ {"caption", "hashtags"} :
                   form'[field] = EmptyDraft[field]
            /\ NonEmpty(data, "caption") => form'.caption = data.caption
            /\ NonEmpty(data, "hashtags") => form'.hashtags = data.hashtags
       /\ (event'.op = "settle" /\ Is2xx(event'.outcome)) =>
            /\ form'.caption = ""
            /\ form'.hashtags = ""]_vars

\* a generation succeeded while the submission is in flight: the draft has the
\* generated text, the request the text that was submitted
C26_Witness ==
    /\ event.op = "settleAI"
    /\ isSubmitting
    /\ Len(requests) = 1
    /\ requests[1].data.caption = "We shipped!"
    /\ form.caption = "AI caption"
    /\ form.hashtags = "#ai"

----------------------------------------------------------------------------
(* C27 *)

\* C27: adds and removes act while a submission is in flight as they do
\* otherwise and leave the request in flight as it is; a successful settlement
\* empties the attachments, those added during the flight included, and a
\* failed one keeps them
C27_AttachmentsInFlight ==
    [][/\ event'.op = "handleImageUpload" =>
            /\ requests' = requests
            /\ LET accepted == SelectSeq(event'.files, Acceptable) IN
               Len(accepted) + Len(uploadedImages) <= 4
                   => uploadedImages' = uploadedImages \o accepted
       /\ event'.op = "removeImage" =>
            /\ requests' = requests
            /\ event'.index \in 0..(Len(uploadedImages) - 1)
                   => Len(uploadedImages') = Len(uploadedImages) - 1
       /\ event'.op = "settle" =>
            uploadedImages' = IF Is2xx(event'.outcome) THEN <<>> ELSE uploadedImages]_vars

\* a png was added while a request that carries the jpeg alone is in flight
C27_Witness ==
    /\ event.op = "handleImageUpload"
    /\ isSubmitting
    /\ Len(requests) = 1
    /\ Len(requests[1].body) = 6
    /\ Field(requests[1].body, "image_0") = jpegOk
    /\ uploadedImages = <<jpegOk, pngExact>>

----------------------------------------------------------------------------
(* C28 *)

\* C28: when a submission settles whose draft was edited while it was in
\* flight, a success gives every field its initial empty value and a failure
\* leaves every field as edited
C28_EditsInFlight ==
    [][(event'.op = "settle" /\ \E i \in 1..Len(requests) : requests[i].data # form) =>
        \A field \in FieldNames :
            form'[field] = IF Is2xx(event'.outcome) THEN EmptyDraft[field] ELSE form[field]]_vars

\* a submission failed and the draft is the edited one: its title, emptied
\* during the flight, is still empty
C28_Witness ==
    /\ event.op = "settle"
    /\ event.outcome = [rejected |-> "TypeError"]
    /\ form.postTitle = ""
    /\ form.caption = "We shipped!"
    /\ form.webhookUrl = "https://example.com/hook"
    /\ ~isSubmitting

----------------------------------------------------------------------------
(* C29 *)

\* C29: the platforms value holds only the ids facebook, instagram and
\* linkedin, none of them twice; a checkbox step changes it by exactly one id,
\* added when it was not selected and removed when it was
C29_PlatformSelection ==
    /\ [](/\ Range(form.platforms) \subseteq {"facebook", "instagram", "linkedin"}
          /\ Cardinality(Range(form.platforms)) = Len(form.platforms))
    /\ [][(event'.op = "onChange" /\ event'.field = "platforms") =>
            \E id \in {"facebook", "instagram", "linkedin"} :
                IF id \in Range(form.platforms)
                THEN /\ Range(form'.platforms) = Range(form.platforms) \ {id}
                     /\ Len(form'.platforms) = Len(form.platforms) - 1
                ELSE /\ Range(form'.platforms) = Range(form.platforms) \cup {id}
                     /\ Len(form'.platforms) = Len(form.platforms) + 1]_vars

\* after a submission succeeded and reset the draft, two platforms were checked
C29_Witness ==
    /\ event.op = "onChange"
    /\ event.field = "platforms"
    /\ form.postTitle = ""
    /\ form.platforms = <<"linkedin", "facebook">>

----------------------------------------------------------------------------
(* C30 *)

\* C30: closing the modal leaves the generation request in flight and
\* isGenerating as they are; a generation that succeeds with the modal closed
\* still sets caption and hashtags from the response and clears the prompt,
\* and one that fails with the modal closed leaves it closed
C30_NoCancellation ==
    [][/\ event'.op = "closeAIModal" =>
            /\ generations' = generations
            /\ isGenerating' = isGenerating
       /\ (event'.op = "settleAI" /\ ~showAIModal) =>
            /\ ~showAIModal'
            /\ ~isGenerating'
            /\ Generated(event'.outcome) =>
                 LET data == event'.outcome.json IN
                 /\ form'.caption \in {""} \cup {data[key] : key \in DOMAIN data \cap {"caption", "content"}}
                 /\ NonEmpty(data, "caption") => form'.caption = data.caption
                 /\ form'.hashtags = IF Present(data, "hashtags") THEN data.hashtags ELSE ""
                 /\ aiPrompt' = ""]_vars

\* a generation failed after the modal was closed: it is closed still, with
\* the prompt that was sent
C30_Witness ==
    /\ event.op = "settleAI"
    /\ ~Generated(event.outcome)
    /\ ~showAIModal
    /\ ~isGenerating
    /\ aiPrompt = "launch day"
    /\ toasts = <<"Generation failed">>

====
